---- MODULE Spec2Model ----
(***************************************************************************)
(* Birdhouse training planner (birdhouse_training.py).                     *)
(*                                                                         *)
(* The three JSON tables the module loads at import time are reference     *)
(* data: the level table is a function from the levels 1..MaxLevel to      *)
(* their threshold experience, the birdhouse table is the ordered mapping  *)
(* tier -> {"Hunter Level", "Hunter XP"} kept as the sequence of its       *)
(* items, the multiplier table maps the relic tiers 1..7 to a multiplier.  *)
(* A tier name is the sequence of its whitespace-separated words.          *)
(***************************************************************************)
EXTENDS Integers, Sequences, FiniteSets, TLC

\* ------------------------------------------------------------------ bounds
\* highest tabulated level (99 in the game's table)
MaxLevel == 8
\* largest experience gap between two consecutive levels
MaxGap == 3
\* largest number of birdhouse tiers in the table
MaxTiers == 4
\* largest experience yield of one birdhouse in the base table
MaxYield == 2
\* how many times the relic prompt is answered out of range before it is answered in range
MaxRetries == 1

\* ------------------------------------------------------- program constants
\* levels[5]: the level that unlocks the first birdhouse
MinLevel == 5
\* lowest and highest relic tier get_relic_multiplier accepts
RelicMin == 1
RelicMax == 7
\* birdhouses built on one trip, and logs used on one trip
BirdhousesPerTrip == 4
LogsPerTrip == 4

\* Python's None where an integer is expected (start_xp, end_level, ...)
PyNone == -1
\* Python's None as check_birdhouse_tier's "no next tier"
NoTier == << >>
\* the string "None" check_birdhouse_tier starts from
NoneTier == <<"None">>

LevelKey == "Hunter Level"
XPKey == "Hunter XP"

\* tier names in table order
TierNames ==
    << <<"Regular", "birdhouse">>, <<"Oak", "birdhouse">>, <<"Willow", "birdhouse">>,
       <<"Teak", "birdhouse">>, <<"Maple", "birdhouse">>, <<"Mahogany", "birdhouse">>,
       <<"Yew", "birdhouse">>, <<"Magic", "birdhouse">>, <<"Redwood", "birdhouse">> >>

\* experience yields of one birdhouse in the base table
YieldSet == {1, MaxYield}

\* gaps between consecutive thresholds: of planner runs, of check_level on its own
GapSet == {1, MaxGap}
AllGapSet == 1..MaxGap

VARIABLES
    levels,              \* global: level -> threshold experience
    leagues_multipliers, \* global: relic tier -> multiplier
    base_birdhouses,     \* global: the base tier table
    pc,                  \* where the running function is
    experience,          \* get_inputs: the experience entered
    target_level,        \* get_inputs: the target entered; calc_trips_to_target's parameter
    start_xp,            \* main: first result of get_inputs
    end_level,           \* main: second result of get_inputs
    leagues_flag,        \* main: result of check_leagues
    relic_tier,          \* main: result of get_relic_multiplier
    retries,             \* number of out-of-range answers given to get_relic_multiplier
    multiplier,          \* main: the selected multiplier
    birdhouses,          \* main: the effective tier table
    current_xp,          \* calc_trips_to_target
    current_level,       \* calc_trips_to_target
    logs_to_target,      \* calc_trips_to_target
    trace,               \* history of the loop's locals, one record per iteration
    training_path,       \* main: the plan handed to display_plan
    output,              \* what was printed, in order
    fn_arg,              \* argument of a resolver called on its own
    fn_ret               \* its result

vars == << levels, leagues_multipliers, base_birdhouses, pc, experience, target_level,
           start_xp, end_level, leagues_flag, relic_tier, retries,
                   multiplier, birdhouses,
           current_xp, current_level, logs_to_target, trace, training_path, output,
           fn_arg, fn_ret >>

\* ------------------------------------------------------------ the tables
RECURSIVE SumTo(_, _)
SumTo(g, n) == IF n = 0 THEN 0 ELSE g[n] + SumTo(g, n - 1)

\* the level table with lowest threshold first and gaps g between consecutive levels
TableOf(first, g) == [l \in 1..MaxLevel |-> first + SumTo(g, l - 1)]

GapSeqs == [1..(MaxLevel - 1) -> GapSet]

\* every level table with strictly increasing thresholds within the bounds
AllLevelTables == {TableOf(f, g) : f \in {0, 1}, g \in [1..(MaxLevel - 1) -> AllGapSet]}

\* the level tables of planner runs: the thresholds below MinLevel, which no
\* planner step reads, are 0, 1, 2, ...
PlannerLevelTables ==
    {TableOf(0, g) : g \in {h \in GapSeqs : \A i \in 1..(MinLevel - 1) : h[i] = 1}}

TierValue(lvl, xp) == [k \in {LevelKey, XPKey} |-> IF k = LevelKey THEN lvl ELSE xp]

\* tier tables of n tiers with strictly increasing unlock levels in lo..MaxLevel
TierTablesOf(n, lo) ==
    {[i \in 1..n |-> [key |-> TierNames[i], value |-> TierValue(u[i], y[i])]] :
        u \in {v \in [1..n -> lo..MaxLevel] : \A i \in 1..(n - 1) : v[i] < v[i + 1]},
        y \in [1..n -> YieldSet]}

AllTierTables == UNION {TierTablesOf(n, 1) : n \in 1..MaxTiers}

\* the tier tables of planner runs: the first tier unlocks at MinLevel
PlannerTierTables ==
    {t \in UNION {TierTablesOf(n, MinLevel) : n \in 1..MaxTiers} :
        t[1].value[LevelKey] = MinLevel}

MultiplierTable == [t \in RelicMin..RelicMax |-> t + 1]

\* ------------------------------------------------------- dictionary access
HasKey(bh, tier) == \E i \in 1..Len(bh) : bh[i].key = tier
Get(bh, tier) == bh[CHOOSE i \in 1..Len(bh) : bh[i].key = tier].value

\* Python truthiness of an int-or-None
Truthy(v) == v # PyNone /\ v # 0

\* ------------------------------------------------------------ check_level
RECURSIVE LevelScan(_, _)
LevelScan(xp_to_check, level) ==
    IF level > MaxLevel THEN MaxLevel
    ELSE IF xp_to_check < levels[level] THEN level - 1
    ELSE LevelScan(xp_to_check, level + 1)

\* mutant: returns the level whose threshold is above the experience, not the one before
RECURSIVE LevelScanSameLevel(_, _)
LevelScanSameLevel(xp_to_check, level) ==
    IF level > MaxLevel THEN MaxLevel
    ELSE IF xp_to_check < levels[level] THEN level
    ELSE LevelScanSameLevel(xp_to_check, level + 1)

check_level_same_level(xp_to_check) == LevelScanSameLevel(xp_to_check, 1)

check_level(xp_to_check) == LevelScan(xp_to_check, 1)

\* --------------------------------------------------- check_birdhouse_tier
RECURSIVE TierScan(_, _, _, _)
TierScan(level, bh, i, current_tier) ==
    IF i > Len(bh) THEN <<current_tier, NoTier>>
    ELSE IF level < bh[i].value[LevelKey] THEN <<current_tier, bh[i].key>>
    ELSE TierScan(level, bh, i + 1, bh[i].key)

\* mutant: a tier counts as unlocked only above its unlock level
RECURSIVE TierScanInclusive(_, _, _, _)
TierScanInclusive(level, bh, i, current_tier) ==
    IF i > Len(bh) THEN <<current_tier, NoTier>>
    ELSE IF level <= bh[i].value[LevelKey] THEN <<current_tier, bh[i].key>>
    ELSE TierScanInclusive(level, bh, i + 1, bh[i].key)

check_birdhouse_tier_inclusive(level, bh) == TierScanInclusive(level, bh, 1, NoneTier)

check_birdhouse_tier(level, bh) == TierScan(level, bh, 1, NoneTier)

\* ------------------------------------------------------------ format_logs
\* mutant: the label is made from the last word of the tier name
format_logs_last_word(birdhouse_tier, logs_needed) ==
    [label |-> <<birdhouse_tier[Len(birdhouse_tier)], "logs">>, amount |-> logs_needed]

format_logs(birdhouse_tier, logs_needed) ==
    [label |-> <<Head(birdhouse_tier), "logs">>, amount |-> logs_needed]

\* math.ceil(a / b) for b > 0
Ceil(a, b) == -((-a) \div b)

\* ------------------------------------------------------------- get_inputs
\* mutant: compares with the threshold of the level before MinLevel
BelowMinimumLevelBefore(e) == e < levels[MinLevel - 1]

\* mutant: experience equal to the target's threshold counts as passed
AlreadyPassedOrEqual(e, t) == e >= levels[t]

\* line 158: the entered experience is below the first birdhouse's level
BelowMinimum(e) == e < levels[MinLevel]

\* line 166: the entered experience is past the target's threshold
AlreadyPassed(e, t) == e > levels[t]

XpInputs == 0..(levels[MaxLevel] + 1)
TargetInputs == 0..(MaxLevel + 1)
RelicInputs == {RelicMin - 1, RelicMin, RelicMin + 1, RelicMax + 1}

\* first prompt of get_inputs, answered with the integer e
GetExperience(e) ==
    /\ pc = "get_inputs"
    /\ experience' = e
    /\ IF BelowMinimum(e)
       THEN /\ output' = Append(output, "BelowMinimumExperience")
            /\ start_xp' = PyNone
            /\ end_level' = PyNone
            /\ pc' = "check_leagues"
       ELSE /\ pc' = "get_target"
            /\ UNCHANGED <<output, start_xp, end_level>>
    /\ UNCHANGED <<levels, leagues_multipliers, base_birdhouses, target_level, leagues_flag,
                   relic_tier, retries,
                   multiplier, birdhouses, current_xp, current_level,
                   logs_to_target, trace, training_path, fn_arg, fn_ret>>

\* second prompt of get_inputs, answered with the integer t; levels[t] raises
\* KeyError, which no handler catches, when t is not a tabulated level
GetTarget(t) ==
    /\ pc = "get_target"
    /\ target_level' = t
    /\ IF t \notin DOMAIN levels
       THEN /\ pc' = "crashed"
            /\ UNCHANGED <<output, start_xp, end_level>>
       ELSE IF AlreadyPassed(experience, t)
       THEN /\ output' = Append(output, "TargetAlreadyReached")
            /\ start_xp' = PyNone
            /\ end_level' = PyNone
            /\ pc' = "check_leagues"
       ELSE /\ start_xp' = experience
            /\ end_level' = t
            /\ pc' = "check_leagues"
            /\ UNCHANGED output
    /\ UNCHANGED <<levels, leagues_multipliers, base_birdhouses, experience, leagues_flag,
                   relic_tier, retries,
                   multiplier, birdhouses, current_xp, current_level,
                   logs_to_target, trace, training_path, fn_arg, fn_ret>>

\* a prompt that parses its answer with int() is answered with text that is no
\* integer: int() raises ValueError, the handlers catch TypeError only
ParseFailure ==
    /\ pc \in {"get_inputs", "get_target", "get_relic_multiplier"}
    /\ pc' = "crashed"
    /\ UNCHANGED <<levels, leagues_multipliers, base_birdhouses, experience, target_level,
                   start_xp, end_level, leagues_flag, relic_tier, retries,
                   multiplier, birdhouses,
                   current_xp, current_level, logs_to_target, trace, training_path,
                   output, fn_arg, fn_ret>>

\* ---------------------------------------------- main: the effective table
\* mutant: every field of a tier is scaled, the unlock level too
ScaleTableEveryField(base, mult) ==
    [i \in 1..Len(base) |->
        [key |-> base[i].key,
         value |-> [k \in DOMAIN base[i].value |-> base[i].value[k] * mult]]]

\* lines 228-229: the copy of the base table with "Hunter XP" scaled
ScaleTable(base, mult) ==
    [i \in 1..Len(base) |->
        [key |-> base[i].key,
         value |-> [k \in DOMAIN base[i].value |->
                        IF k = XPKey THEN base[i].value[k] * mult ELSE base[i].value[k]]]]

\* check_leagues, answered "1" (is_one) or anything else
CheckLeagues(is_one) ==
    /\ pc = "check_leagues"
    /\ leagues_flag' = is_one
    /\ IF is_one
       THEN /\ pc' = "get_relic_multiplier"
            /\ UNCHANGED birdhouses
       ELSE /\ birdhouses' = base_birdhouses
            /\ pc' = "plan"
    /\ UNCHANGED <<levels, leagues_multipliers, base_birdhouses, experience, target_level,
                   start_xp, end_level, relic_tier, retries,
                   multiplier, current_xp, current_level,
                   logs_to_target, trace, training_path, output, fn_arg, fn_ret>>

\* get_relic_multiplier, answered with the integer tier, then lines 226-229
GetRelicMultiplier(tier) ==
    /\ pc = "get_relic_multiplier"
    /\ IF RelicMin > tier \/ tier > RelicMax
       THEN /\ retries < MaxRetries
            /\ retries' = retries + 1
            /\ output' = Append(output, "MultiplierOutOfRange")
            /\ UNCHANGED <<pc, relic_tier, multiplier, birdhouses>>
       ELSE /\ relic_tier' = tier
            /\ multiplier' = leagues_multipliers[tier]
            /\ output' = Append(output, "XPModifier")
            /\ birdhouses' = ScaleTable(base_birdhouses, leagues_multipliers[tier])
            /\ pc' = "plan"
            /\ UNCHANGED retries
    /\ UNCHANGED <<levels, leagues_multipliers, base_birdhouses, experience, target_level,
                   start_xp, end_level, leagues_flag, current_xp, current_level,
                   logs_to_target, trace, training_path, fn_arg, fn_ret>>

\* line 232, and lines 118-119 when the plan is computed
Plan ==
    /\ pc = "plan"
    /\ IF Truthy(end_level)
       THEN /\ current_xp' = start_xp
            /\ logs_to_target' = << >>
            /\ current_level' = check_level(start_xp)
            /\ pc' = "calc_trips_to_target"
       ELSE /\ pc' = "done"
            /\ UNCHANGED <<current_xp, logs_to_target, current_level>>
    /\ UNCHANGED <<levels, leagues_multipliers, base_birdhouses, experience, target_level,
                   start_xp, end_level, leagues_flag, relic_tier, retries,
                   multiplier, birdhouses,
                   trace, training_path, output, fn_arg, fn_ret>>

\* ---------------------------------------------------- calc_trips_to_target
\* lines 126-129
NextBenchmark(next_tier, target, bh) ==
    IF next_tier = NoTier \/ target < Get(bh, next_tier)[LevelKey]
    THEN levels[target]
    ELSE levels[Get(bh, next_tier)[LevelKey]]

\* mutant: the quotient is rounded down
TripsNeededFloor(next_benchmark, xp, birdhouse_xp) == (next_benchmark - xp) \div birdhouse_xp

\* mutant: the quotient is rounded down and one trip added
TripsNeededFloorPlusOne(next_benchmark, xp, birdhouse_xp) ==
    ((next_benchmark - xp) \div birdhouse_xp) + 1

\* mutant: the gap is taken from the benchmark down to the experience
TripsNeededSwapped(next_benchmark, xp, birdhouse_xp) == Ceil(xp - next_benchmark, birdhouse_xp)

\* line 133
TripsNeeded(next_benchmark, xp, birdhouse_xp) == Ceil(next_benchmark - xp, birdhouse_xp)

\* one iteration of the while loop, lines 121-142; birdhouses["None"] raises KeyError
LoopIteration ==
    /\ pc = "calc_trips_to_target"
    /\ current_level < target_level
    /\ LET tiers == check_birdhouse_tier(current_level, birdhouses)
           current_tier == tiers[1]
           next_tier == tiers[2]
       IN  IF ~HasKey(birdhouses, current_tier)
           THEN /\ pc' = "crashed"
                /\ UNCHANGED <<current_xp, current_level, logs_to_target, trace>>
           ELSE LET next_benchmark == NextBenchmark(next_tier, target_level, birdhouses)
                    birdhouse_xp == Get(birdhouses, current_tier)[XPKey] * BirdhousesPerTrip
                    trips == TripsNeeded(next_benchmark, current_xp, birdhouse_xp)
                    xp_gain == trips * birdhouse_xp
                    logs_needed == trips * LogsPerTrip
                IN  /\ current_xp' = current_xp + xp_gain
                    /\ logs_to_target' =
                           Append(logs_to_target, format_logs(current_tier, logs_needed))
                    /\ current_level' = check_level(current_xp')
                    /\ trace' = Append(trace,
                           [current_tier |-> current_tier, next_tier |-> next_tier,
                            next_benchmark |-> next_benchmark, birdhouse_xp |-> birdhouse_xp,
                            trips |-> trips, xp_before |-> current_xp,
                            xp_after |-> current_xp + xp_gain,
                            level_before |-> current_level,
                            level_after |-> current_level'])
                    /\ UNCHANGED pc
    /\ UNCHANGED <<levels, leagues_multipliers, base_birdhouses, experience, target_level,
                   start_xp, end_level, leagues_flag, relic_tier, retries,
                   multiplier, birdhouses,
                   training_path, output, fn_arg, fn_ret>>

\* the loop ends: line 144, then display_plan (line 234)
DisplayPlan ==
    /\ pc = "calc_trips_to_target"
    /\ ~(current_level < target_level)
    /\ training_path' = logs_to_target
    /\ output' = Append(output, "Plan")
    /\ pc' = "done"
    /\ UNCHANGED <<levels, leagues_multipliers, base_birdhouses, experience, target_level,
                   start_xp, end_level, leagues_flag, relic_tier, retries,
                   multiplier, birdhouses,
                   current_xp, current_level, logs_to_target, trace, fn_arg, fn_ret>>

\* ------------------------------------------------------- the planner's run
Init ==
    /\ levels \in PlannerLevelTables
    /\ leagues_multipliers = MultiplierTable
    /\ base_birdhouses \in PlannerTierTables
    /\ pc = "get_inputs"
    /\ experience = PyNone
    /\ target_level = PyNone
    /\ start_xp = PyNone
    /\ end_level = PyNone
    /\ leagues_flag = FALSE
    /\ relic_tier = PyNone
    /\ retries = 0
    /\ multiplier = 1
    /\ birdhouses = << >>
    /\ current_xp = PyNone
    /\ current_level = PyNone
    /\ logs_to_target = << >>
    /\ trace = << >>
    /\ training_path = << >>
    /\ output = << >>
    /\ fn_arg = PyNone
    /\ fn_ret = PyNone

Next ==
    \/ \E e \in XpInputs : GetExperience(e)
    \/ \E t \in TargetInputs : GetTarget(t)
    \/ ParseFailure
    \/ \E is_one \in BOOLEAN : CheckLeagues(is_one)
    \/ \E tier \in RelicInputs : GetRelicMultiplier(tier)
    \/ Plan
    \/ LoopIteration
    \/ DisplayPlan

Spec == Init /\ [][Next]_vars

\* ------------------------------------------- the resolvers called on their own
Idle ==
    /\ leagues_multipliers = MultiplierTable
    /\ experience = PyNone
    /\ target_level = PyNone
    /\ start_xp = PyNone
    /\ end_level = PyNone
    /\ leagues_flag = FALSE
    /\ relic_tier = PyNone
    /\ retries = 0
    /\ multiplier = 1
    /\ birdhouses = << >>
    /\ current_xp = PyNone
    /\ current_level = PyNone
    /\ logs_to_target = << >>
    /\ trace = << >>
    /\ training_path = << >>
    /\ output = << >>
    /\ fn_ret = PyNone

InitLevel ==
    /\ levels \in AllLevelTables
    /\ base_birdhouses = << >>
    /\ fn_arg \in 0..(levels[MaxLevel] + 1)
    /\ pc = "call"
    /\ Idle

CallCheckLevel ==
    /\ pc = "call"
    /\ fn_ret' = check_level(fn_arg)
    /\ pc' = "returned"
    /\ UNCHANGED <<levels, leagues_multipliers, base_birdhouses, experience, target_level,
                   start_xp, end_level, leagues_flag, relic_tier, retries, multiplier,
                   birdhouses, current_xp, current_level, logs_to_target, trace,
                   training_path, output, fn_arg>>

SpecLevel == InitLevel /\ [][CallCheckLevel]_vars

InitTier ==
    /\ levels \in {TableOf(0, [i \in 1..(MaxLevel - 1) |-> 1])}
    /\ base_birdhouses \in AllTierTables
    /\ fn_arg \in 0..(MaxLevel + 1)
    /\ pc = "call"
    /\ Idle

CallCheckBirdhouseTier ==
    /\ pc = "call"
    /\ fn_ret' = check_birdhouse_tier(fn_arg, base_birdhouses)
    /\ pc' = "returned"
    /\ UNCHANGED <<levels, leagues_multipliers, base_birdhouses, experience, target_level,
                   start_xp, end_level, leagues_flag, relic_tier, retries, multiplier,
                   birdhouses, current_xp, current_level, logs_to_target, trace,
                   training_path, output, fn_arg>>

SpecTier == InitTier /\ [][CallCheckBirdhouseTier]_vars

\* calc_trips_to_target called on its own with a start experience at or above the
\* threshold of MinLevel and a tabulated target level
InitCalc ==
    /\ levels \in PlannerLevelTables
    /\ leagues_multipliers = MultiplierTable
    /\ base_birdhouses \in PlannerTierTables
    /\ birdhouses = base_birdhouses
    /\ start_xp \in levels[MinLevel]..(levels[MaxLevel] + 1)
    /\ end_level \in 1..MaxLevel
    /\ target_level = end_level
    /\ pc = "call"
    /\ experience = PyNone
    /\ leagues_flag = FALSE
    /\ relic_tier = PyNone
    /\ retries = 0
    /\ multiplier = 1
    /\ current_xp = PyNone
    /\ current_level = PyNone
    /\ logs_to_target = << >>
    /\ trace = << >>
    /\ training_path = << >>
    /\ output = << >>
    /\ fn_arg = PyNone
    /\ fn_ret = PyNone

\* lines 118-119
CallCalcTripsToTarget ==
    /\ pc = "call"
    /\ current_xp' = start_xp
    /\ logs_to_target' = << >>
    /\ current_level' = check_level(start_xp)
    /\ pc' = "calc_trips_to_target"
    /\ UNCHANGED <<levels, leagues_multipliers, base_birdhouses, experience, target_level,
                   start_xp, end_level, leagues_flag, relic_tier, retries, multiplier,
                   birdhouses, trace, training_path, output, fn_arg, fn_ret>>

\* line 144
ReturnLogsToTarget ==
    /\ pc = "calc_trips_to_target"
    /\ ~(current_level < target_level)
    /\ fn_ret' = logs_to_target
    /\ pc' = "returned"
    /\ UNCHANGED <<levels, leagues_multipliers, base_birdhouses, experience, target_level,
                   start_xp, end_level, leagues_flag, relic_tier, retries, multiplier,
                   birdhouses, current_xp, current_level, logs_to_target, trace,
                   training_path, output, fn_arg>>

NextCalc == CallCalcTripsToTarget \/ LoopIteration \/ ReturnLogsToTarget

SpecCalc == InitCalc /\ [][NextCalc]_vars

\* the call waits for nothing: a step that can be taken is taken
FairSpecCalc == SpecCalc /\ WF_vars(NextCalc)

\* ================================================================ properties
Printed(message) == \E i \in 1..Len(output) : output[i] = message
UnlockLevel(bh, i) == bh[i].value[LevelKey]
Yield(bh, i) == bh[i].value[XPKey]
TierIndex(bh, tier) == CHOOSE i \in 1..Len(bh) : bh[i].key = tier
Largest(S) == CHOOSE x \in S : \A y \in S : y <= x
Smallest(S) == CHOOSE x \in S : \A y \in S : x <= y

\* C1: for an experience x at or above the lowest threshold, check_level(x) is the
\* unique level l with levels[l] <= x < levels[l + 1], and the highest level when
\* x is at or above the highest threshold.
C1_LevelResolver ==
    (pc = "returned" /\ fn_arg >= levels[1]) =>
        /\ fn_ret \in 1..MaxLevel
        /\ levels[fn_ret] <= fn_arg
        /\ fn_ret < MaxLevel => fn_arg < levels[fn_ret + 1]
        /\ fn_arg >= levels[MaxLevel] => fn_ret = MaxLevel
        /\ \A l \in 1..MaxLevel :
               (levels[l] <= fn_arg /\ (l = MaxLevel \/ fn_arg < levels[l + 1])) => l = fn_ret

C1_Witness ==
    /\ pc = "returned"
    /\ fn_ret \in 2..(MaxLevel - 1)
    /\ levels[fn_ret] < fn_arg
    /\ fn_arg < levels[fn_ret + 1]

\* C2: check_birdhouse_tier(lvl) is (c, n) with c the last tier unlocked at or below
\* lvl ("None" when there is none, and n is then the first tier) and n the first tier
\* unlocked above lvl (no tier when lvl is at or above the last unlock level).
C2_TierResolver ==
    pc = "returned" =>
        LET bh == base_birdhouses
            unlocked == {i \in 1..Len(bh) : UnlockLevel(bh, i) <= fn_arg}
            locked == {i \in 1..Len(bh) : UnlockLevel(bh, i) > fn_arg}
        IN  /\ fn_ret[1] = IF unlocked = {} THEN NoneTier ELSE bh[Largest(unlocked)].key
            /\ fn_ret[2] = IF locked = {} THEN NoTier ELSE bh[Smallest(locked)].key
            /\ unlocked = {} => fn_ret = <<NoneTier, bh[1].key>>
            /\ fn_arg >= UnlockLevel(bh, Len(bh)) => fn_ret = <<bh[Len(bh)].key, NoTier>>

C2_Witness ==
    /\ pc = "returned"
    /\ Len(base_birdhouses) = 3
    /\ fn_ret = <<base_birdhouses[2].key, base_birdhouses[3].key>>
    /\ UnlockLevel(base_birdhouses, 2) < fn_arg

\* ------------------------------------------------------------ the stepper
Iterations == 1..Len(trace)
\* the tier of the effective table that is current at a level
CurrentTierAt(level) ==
    LET unlocked == {i \in 1..Len(birdhouses) : UnlockLevel(birdhouses, i) <= level}
    IN  birdhouses[Largest(unlocked)].key

\* C3: every iteration computes trips >= 1, and the values of current_xp are
\* strictly increasing from one iteration to the next.
C3_XpStrictlyIncreasing ==
    /\ \A i \in Iterations :
           /\ trace[i].trips >= 1
           /\ trace[i].xp_after > trace[i].xp_before
           /\ i > 1 => trace[i].xp_before = trace[i - 1].xp_after
    /\ trace # << >> =>
           /\ trace[1].xp_before = start_xp
           /\ trace[Len(trace)].xp_after = current_xp

C3_Witness ==
    /\ pc = "done"
    /\ Len(trace) >= 2
    /\ \E i \in Iterations : trace[i].trips >= 2

\* the tiers unlocked strictly between the starting level and the target level
TiersBetween ==
    {i \in 1..Len(birdhouses) :
        /\ check_level(start_xp) < UnlockLevel(birdhouses, i)
        /\ UnlockLevel(birdhouses, i) < target_level}

C4_IterationBound ==
    pc \in {"calc_trips_to_target", "returned"} =>
        Len(trace) <= Cardinality(TiersBetween) + 1

\* C4: the loop terminates, after at most as many iterations as there are tiers
\* unlocked between the starting level and the target level, plus one.
C4_Terminates ==
    /\ []C4_IterationBound
    /\ (pc = "call") ~> (pc = "returned")

C4_Witness ==
    /\ pc = "returned"
    /\ Cardinality(TiersBetween) = 2
    /\ Len(trace) = 3

\* C5 as stated: current_level never decreases and never exceeds target_level,
\* the value that ends the loop included.
C5_LevelBoundedByTarget ==
    \A i \in Iterations :
        /\ trace[i].level_before <= trace[i].level_after
        /\ trace[i].level_after <= target_level

\* C5 amended: current_level never decreases; it is below target_level whenever an
\* iteration starts; the value that ends the loop is at least target_level and at
\* most the highest tabulated level.
C5_LevelMonotone ==
    /\ \A i \in Iterations :
           /\ trace[i].level_before <= trace[i].level_after
           /\ trace[i].level_before < target_level
           /\ trace[i].level_after <= MaxLevel
           /\ i > 1 => trace[i].level_before = trace[i - 1].level_after
    /\ trace # << >> =>
           /\ trace[1].level_before = check_level(start_xp)
           /\ trace[Len(trace)].level_after = current_level
    /\ (pc = "done" /\ Printed("Plan")) =>
           /\ current_level >= target_level
           /\ current_level <= MaxLevel

C5_Witness ==
    /\ pc = "done"
    /\ Len(trace) >= 2
    /\ current_level > target_level

\* C6: one plan step per iteration, labelled with the tier current when the
\* iteration starts; the tiers of the steps are in strictly ascending unlock order.
C6_OneStepPerTier ==
    /\ Len(logs_to_target) = Len(trace)
    /\ \A i \in Iterations :
           /\ trace[i].current_tier = CurrentTierAt(trace[i].level_before)
           /\ logs_to_target[i].label = <<trace[i].current_tier[1], "logs">>
    /\ \A i, j \in Iterations :
           i < j => /\ TierIndex(birdhouses, trace[i].current_tier)
                        < TierIndex(birdhouses, trace[j].current_tier)
                    /\ UnlockLevel(birdhouses, TierIndex(birdhouses, trace[i].current_tier))
                        < UnlockLevel(birdhouses, TierIndex(birdhouses, trace[j].current_tier))
                    /\ logs_to_target[i].label # logs_to_target[j].label
    /\ (pc = "done" /\ Printed("Plan")) => training_path = logs_to_target

C6_Witness ==
    /\ pc = "done"
    /\ Len(training_path) = 3
    /\ training_path[1].label = <<"Regular", "logs">>
    /\ training_path[3].label = <<"Willow", "logs">>

\* ------------------------------------------------------------- get_inputs
TargetEntered == target_level # PyNone /\ target_level \in DOMAIN levels
Rejected(message) ==
    /\ Printed(message)
    /\ start_xp = PyNone
    /\ end_level = PyNone
    /\ pc # "calc_trips_to_target"
    /\ trace = << >>
    /\ ~Printed("Plan")

\* C7 as stated: experience at or above the target's threshold, equal included, is
\* reported as TargetAlreadyReached, and no plan is computed or displayed.
C7_MeetsOrExceedsRejected ==
    (TargetEntered /\ experience >= levels[target_level]) => Rejected("TargetAlreadyReached")

\* C7 amended: experience strictly above the target's threshold is reported as
\* TargetAlreadyReached and no plan is computed or displayed; experience equal to
\* the threshold is accepted, the stepper runs no iteration and an empty plan is
\* displayed.
C7_ExceedsRejected ==
    /\ (TargetEntered /\ experience > levels[target_level]) =>
           Rejected("TargetAlreadyReached")
    /\ (TargetEntered /\ experience = levels[target_level]) =>
           /\ ~Printed("TargetAlreadyReached")
           /\ start_xp = experience
           /\ end_level = target_level
           /\ trace = << >>
           /\ pc = "done" => (Printed("Plan") /\ training_path = << >>)

C7_Witness ==
    /\ pc = "done"
    /\ TargetEntered
    /\ experience > levels[target_level]
    /\ Printed("TargetAlreadyReached")
    /\ leagues_flag

C7_WitnessEqual ==
    /\ pc = "done"
    /\ TargetEntered
    /\ experience = levels[target_level]
    /\ Printed("Plan")

\* C8: experience below the threshold of level 5 is reported as
\* BelowMinimumExperience, the target is not asked for, and whatever is answered
\* afterwards calc_trips_to_target is not called and no plan is displayed.
C8_BelowMinimumRejected ==
    (experience # PyNone /\ experience < levels[MinLevel]) =>
        /\ Rejected("BelowMinimumExperience")
        /\ target_level = PyNone
        /\ pc # "get_target"
        /\ current_xp = PyNone
        /\ training_path = << >>

C8_Witness ==
    /\ pc = "done"
    /\ experience # PyNone
    /\ experience < levels[MinLevel]
    /\ leagues_flag
    /\ relic_tier = RelicMin + 1
    /\ retries = 1

\* ----------------------------------------------------- the effective table
TablesBuilt == pc \in {"plan", "calc_trips_to_target", "done"}
SelectedMultiplier == IF leagues_flag THEN leagues_multipliers[relic_tier] ELSE 1

C9_Scaled ==
    TablesBuilt =>
        /\ Len(birdhouses) = Len(base_birdhouses)
        /\ \A i \in 1..Len(base_birdhouses) :
               /\ birdhouses[i].key = base_birdhouses[i].key
               /\ DOMAIN birdhouses[i].value = {LevelKey, XPKey}
               /\ UnlockLevel(birdhouses, i) = UnlockLevel(base_birdhouses, i)
               /\ Yield(birdhouses, i) = Yield(base_birdhouses, i) * SelectedMultiplier
        /\ leagues_flag => multiplier = SelectedMultiplier
        /\ ~leagues_flag => birdhouses = base_birdhouses

\* C9: the effective table has every base tier in order with its unlock level and
\* its yield times the selected multiplier, equals the base table without special
\* mode, and the base table is never changed.
C9_EffectiveTable ==
    /\ []C9_Scaled
    /\ [][base_birdhouses' = base_birdhouses]_vars

C9_Witness ==
    /\ pc = "done"
    /\ leagues_flag
    /\ multiplier = 3
    /\ Len(birdhouses) >= 2
    /\ Yield(birdhouses, 2) = 3 * MaxYield
    /\ Len(trace) >= 1

\* C10: the benchmark is the target's threshold when there is no next tier or the
\* next tier unlocks above the target, else the threshold of the next tier's
\* unlock level; trips is the least whole number of trips that reaches it; the
\* step's quantity is 4 * trips.
C10_BenchmarkAndTrips ==
    /\ Len(logs_to_target) = Len(trace)
    /\ \A i \in Iterations :
        LET r == trace[i]
            yield == Yield(birdhouses, TierIndex(birdhouses, r.current_tier))
            next_unlock == UnlockLevel(birdhouses, TierIndex(birdhouses, r.next_tier))
            benchmark == IF r.next_tier = NoTier THEN levels[target_level]
                         ELSE IF next_unlock > target_level THEN levels[target_level]
                         ELSE levels[next_unlock]
        IN  /\ r.next_benchmark = benchmark
            /\ r.trips \in Nat
            /\ r.xp_before + r.trips * (4 * yield) >= benchmark
            /\ r.trips > 0 => r.xp_before + (r.trips - 1) * (4 * yield) < benchmark
            /\ r.xp_after = r.xp_before + r.trips * (4 * yield)
            /\ benchmark <= r.xp_after
            /\ r.xp_after < benchmark + 4 * yield
            /\ logs_to_target[i].amount = 4 * r.trips

C10_Witness ==
    /\ pc = "done"
    /\ Len(trace) >= 2
    /\ trace[1].next_benchmark < levels[target_level]
    /\ trace[1].trips >= 2
    /\ trace[1].xp_after > trace[1].next_benchmark
    /\ trace[2].next_tier = NoTier

====
